---- MODULE Spec2Model ----
(***************************************************************************)
(* The live-event subscription hook useWs(url, onMsg) of the attendance    *)
(* dashboard, driven by the React effect life cycle and by the browser's   *)
(* WebSocket transport.                                                    *)
(*                                                                         *)
(* One View Binding (one component instance using the hook) is modelled.   *)
(* Every run of the effect body is one Subscription Handle; the function   *)
(* the effect returns is the Handle's close().                             *)
(*                                                                         *)
(* The second part models the REST views Logs, Students and Dashboard:     *)
(* one GET each, issued at mount, whose result is held in component state. *)
(***************************************************************************)
EXTENDS Integers, Sequences, FiniteSets, TLC

\* ------------------------------------------------------------------ bounds
MaxRuns == 2        \* effect runs (Handles) of the binding
MaxCloses == 2      \* calls of one cleanup function
MaxFrames == 2      \* inbound frames delivered to the binding's connections

\* ------------------------------------------------------------------ inputs
\* The (url, onMsg) argument pairs the component renders the hook with. The
\* url is empty, an endpoint the WebSocket constructor accepts (two of them)
\* or one it rejects; onMsg is one of two function identities.
Props == {<<"", "cb1">>,
          <<"ws://host/u1", "cb1">>, <<"ws://host/u1", "cb2">>,
          <<"ws://host/u2", "cb1">>,
          <<"nows:bad", "cb1">>}

\* Text payloads of inbound frames: a JSON document and a truncated one.
FrameTexts == {"{\"student_roll\":\"S1\",\"present\":true}",
               "{\"student_roll\":"}

\* Whether a call of the function onMsg throws: cb1 returns for every event,
\* cb2 is a consumer that throws for every event.
Throws(cb) == cb = "cb2"

\* JavaScript truthiness of the hook's two arguments (if(!url), onMsg && ..).
Truthy(v) == v \notin {"absent", ""}

\* new WebSocket(url) throws a SyntaxError for a url that is not a ws: URL.
WebSocketAccepts(u) == u \in {"ws://host/u1", "ws://host/u2"}

\* JSON.parse(text): the decoded value, or a throw for text that is not JSON.
JSONparse(t) ==
    CASE t = "{\"student_roll\":\"S1\",\"present\":true}"
            -> [ok |-> TRUE, val |-> [student_roll |-> "S1", present |-> TRUE]]
      [] OTHER
            -> [ok |-> FALSE, val |-> [student_roll |-> "", present |-> FALSE]]

\* ------------------------------------------------------------------- state
VARIABLES
    phase,      \* "init" (not mounted yet), "mounted", "unmounted"
    wsRef,      \* wsRef.current: 0 (null) or the index of a socket
    runs,       \* the effect runs, in order; one record per run
    socks,      \* the WebSocket objects constructed, in order
    calls,      \* the invocations of onMsg, in order
    console,    \* the console output: the lines logged so far
    tick,       \* logical clock of transport constructions and close() calls
    uncaught,   \* TRUE once an exception has escaped the hook or a handler
    props,      \* the (url, onMsg) of the latest render; << >> before it
    views       \* the REST views Logs, Students, Dashboard; one record each

vars == <<phase, wsRef, runs, socks, calls, console, tick, uncaught,
          props, views>>

\* The part of the state the hook's own code reads and writes.
HookState == [wsRef |-> wsRef, runs |-> runs, socks |-> socks,
              console |-> console, tick |-> tick, uncaught |-> uncaught]

\* console.log / console.error of one of the hook's messages.
LogLines == {"ws err", "ws open", "ws parse", "ws error", "ws closed"}
Log(c, line) == c \cup {line}

\* Frames delivered so far, over all connections.
RECURSIVE SumFrames(_, _)
SumFrames(ss, n) == IF n = 0 THEN 0 ELSE Len(ss[n].frames) + SumFrames(ss, n - 1)
FramesDelivered == SumFrames(socks, Len(socks))

\* ------------------------------------------------------- browser WebSocket
\* WebSocket.close(): a no-op on a CLOSING or CLOSED socket, otherwise the
\* closing handshake starts and readyState becomes CLOSING.
WsClose(s, now) ==
    IF s.readyState \in {"CLOSING", "CLOSED"}
    THEN [s EXCEPT !.closeCalls = @ + 1,
                   !.closeAt = IF @ = 0 THEN now ELSE @]
    ELSE [s EXCEPT !.readyState = "CLOSING",
                   !.closeCalls = @ + 1,
                   !.closeAt = IF @ = 0 THEN now ELSE @,
                   !.teardowns = @ + 1]

\* ------------------------------------------------------------ the hook body
\* The function returned by the effect of run i:
\*   alive = false; if(wsRef.current) wsRef.current.close();
CleanupFn_KeepAlive(st, i) ==
    LET r  == st.runs[i]
        w  == st.wsRef
        r1 == [r EXCEPT !.cleanups = @ + 1,
                        !.framesAtClose =
                            IF r.cleanups = 0 /\ r.ws # 0
                            THEN Len(st.socks[r.ws].frames) ELSE @,
                        !.closed = IF w # 0 THEN @ \cup {w} ELSE @]
    IN  IF w # 0
        THEN [st EXCEPT !.runs[i] = r1,
                        !.socks[w] = WsClose(st.socks[w], st.tick + 1),
                        !.tick = @ + 1]
        ELSE [st EXCEPT !.runs[i] = r1]

CleanupFn_NoClose(st, i) ==
    [st EXCEPT !.runs[i].alive = FALSE,
               !.runs[i].cleanups = @ + 1,
               !.runs[i].framesAtClose =
                   IF st.runs[i].cleanups = 0 /\ st.runs[i].ws # 0
                   THEN Len(st.socks[st.runs[i].ws].frames) ELSE @]

CleanupFn(st, i) ==
    LET r  == st.runs[i]
        w  == st.wsRef
        r1 == [r EXCEPT !.alive = FALSE,
                        !.cleanups = @ + 1,
                        !.framesAtClose =
                            IF r.cleanups = 0 /\ r.ws # 0
                            THEN Len(st.socks[r.ws].frames) ELSE @,
                        !.closed = IF w # 0 THEN @ \cup {w} ELSE @]
    IN  IF w # 0
        THEN [st EXCEPT !.runs[i] = r1,
                        !.socks[w] = WsClose(st.socks[w], st.tick + 1),
                        !.tick = @ + 1]
        ELSE [st EXCEPT !.runs[i] = r1]

\* A fresh effect-run record.
NewRun(u, cb) ==
    [url |-> u, onMsg |-> cb, alive |-> FALSE, attempted |-> FALSE, ws |-> 0,
     cleanup |-> FALSE, torn |-> FALSE, cleanups |-> 0, framesAtClose |-> 0, closed |-> {}]

\* The effect body when url is empty or absent:  if(!url) return;
InertRun_Attempt(st, u, cb) ==
    [st EXCEPT !.runs = Append(@, [NewRun(u, cb) EXCEPT !.alive = TRUE,
                                                       !.attempted = TRUE]),
               !.console = Log(@, "ws err")]

InertRun_WithCleanup(st, u, cb) ==
    [st EXCEPT !.runs = Append(@, [NewRun(u, cb) EXCEPT !.cleanup = TRUE])]

InertRun(st, u, cb) ==
    [st EXCEPT !.runs = Append(@, NewRun(u, cb))]

\* The effect body when new WebSocket(url) throws: alive was set, the catch
\* logs and returns without a cleanup function.
FailedRun_WithCleanup(st, u, cb) ==
    [st EXCEPT !.runs = Append(@, [NewRun(u, cb) EXCEPT !.alive = TRUE,
                                                       !.attempted = TRUE,
                                                       !.cleanup = TRUE]),
               !.console = Log(@, "ws err")]

FailedRun(st, u, cb) ==
    [st EXCEPT !.runs = Append(@, [NewRun(u, cb) EXCEPT !.alive = TRUE,
                                                       !.attempted = TRUE]),
               !.console = Log(@, "ws err")]

\* The effect body when the WebSocket is constructed: the handlers are set,
\* wsRef.current is the new socket and the cleanup function is returned.
OpenedRun_NoCleanup(st, u, cb) ==
    [st EXCEPT
        !.runs = Append(@, [NewRun(u, cb) EXCEPT !.alive = TRUE,
                                                  !.attempted = TRUE,
                                                  !.ws = Len(st.socks) + 1]),
        !.socks = Append(@, [url |-> u, run |-> Len(st.runs) + 1,
                             readyState |-> "CONNECTING",
                             established |-> FALSE,
                             frames |-> << >>,
                             closeCalls |-> 0, teardowns |-> 0,
                             openedAt |-> st.tick + 1, closeAt |-> 0]),
        !.tick = @ + 1,
        !.wsRef = Len(st.socks) + 1]

OpenedRun(st, u, cb) ==
    [st EXCEPT
        !.runs = Append(@, [NewRun(u, cb) EXCEPT !.alive = TRUE,
                                                  !.attempted = TRUE,
                                                  !.ws = Len(st.socks) + 1,
                                                  !.cleanup = TRUE]),
        !.socks = Append(@, [url |-> u, run |-> Len(st.runs) + 1,
                             readyState |-> "CONNECTING",
                             established |-> FALSE,
                             frames |-> << >>,
                             closeCalls |-> 0, teardowns |-> 0,
                             openedAt |-> st.tick + 1, closeAt |-> 0]),
        !.tick = @ + 1,
        !.wsRef = Len(st.socks) + 1]

\* The effect body, run with arguments (u, cb).
EffectBody(st, u, cb) ==
    IF ~Truthy(u) THEN InertRun(st, u, cb)
    ELSE IF ~WebSocketAccepts(u) THEN FailedRun(st, u, cb)
    ELSE OpenedRun(st, u, cb)

\* React tears the previous effect run down: its cleanup function, when it
\* returned one, is called once.
Teardown(st) ==
    LET i == Len(st.runs)
    IN  IF i = 0 THEN st
        ELSE LET st1 == IF st.runs[i].cleanup THEN CleanupFn(st, i) ELSE st
             IN  [st1 EXCEPT !.runs[i].torn = TRUE]

Install(st) ==
    /\ wsRef' = st.wsRef
    /\ runs' = st.runs
    /\ socks' = st.socks
    /\ console' = st.console
    /\ tick' = st.tick
    /\ uncaught' = st.uncaught

\* --------------------------------------------------------- React life cycle
\* First render and commit: the effect runs with the initial arguments.
Mount(u, cb) ==
    /\ phase = "init"
    /\ phase' = "mounted"
    /\ props' = <<u, cb>>
    /\ Install(EffectBody(HookState, u, cb))
    /\ UNCHANGED <<calls, views>>

\* The dependency list [url, onMsg] of useEffect: the effect runs again when
\* an entry differs from the one of the previous run.
DepsChanged_UrlOnly(old, new) == old[1] # new[1]
DepsChanged(old, new) == old[1] # new[1] \/ old[2] # new[2]

\* A later render with arguments (u, cb). When they differ from the previous
\* run's, the previous run is torn down and the effect runs again; otherwise
\* the effect is left alone and nothing changes.
Rerender(u, cb) ==
    /\ phase = "mounted"
    /\ props' = <<u, cb>>
    /\ IF DepsChanged(<<runs[Len(runs)].url, runs[Len(runs)].onMsg>>, <<u, cb>>)
       THEN /\ Len(runs) < MaxRuns
            /\ Install(EffectBody(Teardown(HookState), u, cb))
            /\ UNCHANGED <<phase, calls, views>>
       ELSE UNCHANGED <<phase, wsRef, runs, socks, calls, console, tick,
                        uncaught, views>>

\* The component unmounts: the last run's cleanup is called.
Unmount ==
    /\ phase = "mounted"
    /\ phase' = "unmounted"
    /\ Install(Teardown(HookState))
    /\ UNCHANGED <<calls, props, views>>

\* The holder of the function that the effect of run i returned calls it
\* again, after React called it. (React calls each cleanup once; this is a
\* caller of the Handle's close() that keeps the function.)
Reclose(i) ==
    /\ runs[i].cleanup
    /\ runs[i].cleanups >= 1
    /\ runs[i].cleanups < MaxCloses
    /\ Install(CleanupFn(HookState, i))
    /\ UNCHANGED <<phase, calls, props, views>>

\* ---------------------------------------------------------------- handlers
\* Whether ws.onmessage of run r calls onMsg for the parse result j:
\*   const j = JSON.parse(ev.data); if(onMsg && alive) onMsg(j);
ShouldDispatch_NoAlive(r, j) == j.ok /\ Truthy(r.onMsg)
ShouldDispatch_NoParse(r, j) == Truthy(r.onMsg) /\ r.alive
ShouldDispatch(r, j) == j.ok /\ Truthy(r.onMsg) /\ r.alive

\* ws.onmessage of the socket s, called with a frame whose data is t. The
\* handler closes over the alive flag and the onMsg of the run that made s.
\* The frame is the k-th to arrive on s. onMsg(j) runs inside the handler's
\* try: it returns, or it throws and the catch logs "ws parse".
OnMessage_Unshift(s, t) ==
    LET i == socks[s].run
        r == runs[i]
        j == JSONparse(t)
        k == Len(socks[s].frames) + 1
    IN  /\ socks' = [socks EXCEPT ![s].frames = Append(@, t)]
        /\ IF ShouldDispatch(r, j)
           THEN LET threw == Throws(r.onMsg) IN
                /\ calls' = <<[run |-> i, cb |-> r.onMsg, k |-> k,
                               ev |-> j.val, threw |-> threw]>> \o calls
                /\ console' = IF threw THEN Log(console, "ws parse")
                              ELSE console
           ELSE IF ~j.ok
           THEN /\ console' = Log(console, "ws parse")
                /\ UNCHANGED calls
           ELSE UNCHANGED <<calls, console>>
        /\ UNCHANGED <<phase, wsRef, runs, tick, uncaught, props, views>>

OnMessage_Uncaught(s, t) ==
    LET i == socks[s].run
        r == runs[i]
        j == JSONparse(t)
        k == Len(socks[s].frames) + 1
    IN  /\ socks' = [socks EXCEPT ![s].frames = Append(@, t)]
        /\ IF ShouldDispatch(r, j)
           THEN LET threw == Throws(r.onMsg) IN
                /\ calls' = Append(calls, [run |-> i, cb |-> r.onMsg, k |-> k,
                                           ev |-> j.val, threw |-> threw])
                /\ uncaught' = (uncaught \/ threw)
                /\ UNCHANGED console
           ELSE IF ~j.ok
           THEN /\ console' = Log(console, "ws parse")
                /\ UNCHANGED <<calls, uncaught>>
           ELSE UNCHANGED <<calls, console, uncaught>>
        /\ UNCHANGED <<phase, wsRef, runs, tick, props, views>>

OnMessage(s, t) ==
    LET i == socks[s].run
        r == runs[i]
        j == JSONparse(t)
        k == Len(socks[s].frames) + 1
    IN  /\ socks' = [socks EXCEPT ![s].frames = Append(@, t)]
        /\ IF ShouldDispatch(r, j)
           THEN LET threw == Throws(r.onMsg) IN
                /\ calls' = Append(calls, [run |-> i, cb |-> r.onMsg, k |-> k,
                                           ev |-> j.val, threw |-> threw])
                /\ console' = IF threw THEN Log(console, "ws parse")
                              ELSE console
           ELSE IF ~j.ok
           THEN /\ console' = Log(console, "ws parse")
                /\ UNCHANGED calls
           ELSE UNCHANGED <<calls, console>>
        /\ UNCHANGED <<phase, wsRef, runs, tick, uncaught, props, views>>

\* ws.onopen
OnOpen(s) ==
    /\ console' = Log(console, "ws open")

\* ws.onerror
OnError(c) == Log(c, "ws error")

\* ws.onclose
OnClose(c) == Log(c, "ws closed")

\* --------------------------------------------------------------- transport
\* The connection is established: readyState OPEN, the open event fires.
TransportOpen(s) ==
    /\ socks[s].readyState = "CONNECTING"
    /\ socks' = [socks EXCEPT ![s].readyState = "OPEN",
                              ![s].established = TRUE]
    /\ OnOpen(s)
    /\ UNCHANGED <<phase, wsRef, runs, calls, tick, uncaught, props, views>>

\* A frame arrives on an established connection. Frames still arrive while
\* the closing handshake is in progress (close() requested, connection not
\* yet terminated).
TransportMessage(s, t) ==
    /\ socks[s].readyState \in {"OPEN", "CLOSING"}
    /\ socks[s].established
    /\ FramesDelivered < MaxFrames
    /\ OnMessage(s, t)

\* The connection fails: readyState CLOSED, then the error and close events.
TransportError(s) ==
    /\ socks[s].readyState # "CLOSED"
    /\ socks' = [socks EXCEPT ![s].readyState = "CLOSED",
                              ![s].established = FALSE]
    /\ console' = OnClose(OnError(console))
    /\ UNCHANGED <<phase, wsRef, runs, calls, tick, uncaught, props, views>>

\* The connection terminates (the peer closed it, or the closing handshake
\* that close() started completes): readyState CLOSED, the close event.
TransportClose_Reconnect(s) ==
    /\ socks[s].readyState \in {"OPEN", "CLOSING"}
    /\ console' = OnClose(console)
    /\ IF Len(socks) <= MaxRuns
       THEN /\ socks' = Append([socks EXCEPT ![s].readyState = "CLOSED",
                                             ![s].established = FALSE],
                               [socks[s] EXCEPT !.readyState = "CONNECTING",
                                                !.established = FALSE,
                                                !.frames = << >>,
                                                !.closeCalls = 0,
                                                !.teardowns = 0,
                                                !.openedAt = tick + 1,
                                                !.closeAt = 0])
            /\ tick' = tick + 1
            /\ wsRef' = Len(socks) + 1
       ELSE /\ socks' = [socks EXCEPT ![s].readyState = "CLOSED",
                                   ![s].established = FALSE]
            /\ UNCHANGED <<tick, wsRef>>
    /\ UNCHANGED <<phase, runs, calls, uncaught, props, views>>

TransportClose(s) ==
    /\ socks[s].readyState \in {"OPEN", "CLOSING"}
    /\ socks' = [socks EXCEPT ![s].readyState = "CLOSED",
                              ![s].established = FALSE]
    /\ console' = OnClose(console)
    /\ UNCHANGED <<phase, wsRef, runs, calls, tick, uncaught, props, views>>

\* =========================================================== the REST views
\* The pages Logs, Students and Dashboard. Each fetches once, in the effect
\* of its first render, and holds the result in component state. They share
\* no state with the hook or with each other.
ViewNames == {"Logs", "Students", "Dashboard"}

\* JavaScript values that travel in a response body or sit in view state.
EmptyObj == [f \in {} |-> 0]
JsUndefined == [t |-> "undefined", items |-> << >>, obj |-> EmptyObj, text |-> ""]
JsNull == [t |-> "null", items |-> << >>, obj |-> EmptyObj, text |-> ""]
JsArray(xs) == [t |-> "array", items |-> xs, obj |-> EmptyObj, text |-> ""]
JsObject(o) == [t |-> "object", items |-> << >>, obj |-> o, text |-> ""]
JsString(x) == [t |-> "string", items |-> << >>, obj |-> EmptyObj, text |-> x]

\* Array.isArray(v), and the truthiness of v (v || .., v && .., !v).
IsArray(v) == v.t = "array"
JsTruthy(v) ==
    CASE v.t \in {"undefined", "null"} -> FALSE
      [] v.t = "string" -> v.text # ""
      [] OTHER -> TRUE

\* Object.assign(target, source): the target's properties, overwritten and
\* extended by the own properties of source. A string source contributes
\* its characters under index keys, none of them a key of the target.
ObjectAssign_SourceOnly(target, source) ==
    IF source.t = "object" THEN source.obj ELSE EmptyObj

ObjectAssign(target, source) ==
    LET own == IF source.t = "object" THEN source.obj ELSE EmptyObj
    IN  [f \in DOMAIN target \cup DOMAIN own |->
            IF f \in DOMAIN own THEN own[f] ELSE target[f]]

\* The bodies a 2xx response of each endpoint may carry: an array of rows, an
\* empty body, an object (for the summary, with any of its two counters).
StatFields == {"students", "todays"}
StatValue(f) == IF f = "students" THEN 7 ELSE 3
Bodies(v) ==
    CASE v = "Logs" ->
            {JsArray(<< >>), JsArray(<<"log1">>), JsObject(EmptyObj)}
      [] v = "Students" ->
            {JsArray(<< >>), JsArray(<<"stu1">>), JsNull}
      [] OTHER ->
            {JsNull} \cup
            {JsObject([f \in S |-> StatValue(f)]) : S \in SUBSET StatFields}

\* What axios.get settles with: a response r = {status, data} on a 2xx
\* status, otherwise an error e = {message, response} whose response is
\* absent when no answer arrived.
NoResponse == [present |-> FALSE, status |-> "undefined", data |-> JsUndefined]
Response(st, body) == [present |-> TRUE, status |-> st, data |-> body]
Responses(v) == {Response("200", b) : b \in Bodies(v)}
Errors ==
    {[message |-> "Network Error", response |-> NoResponse],
     [message |-> "Request failed with status code 500",
      response |-> Response("500", JsString("Internal Server Error"))],
     [message |-> "", response |-> NoResponse]}

\* The err state: null, the object the list views build, or the string the
\* summary view stores.
ErrNull == [kind |-> "null", message |-> "", status |-> "undefined",
            data |-> JsUndefined]
ErrObject(m, st, d) == [kind |-> "object", message |-> m, status |-> st,
                        data |-> d]
ErrString(m) == [kind |-> "string", message |-> m, status |-> "undefined",
                 data |-> JsUndefined]
ErrTruthy(e) == e.kind = "object" \/ (e.kind = "string" /\ e.message # "")

\* useState initial values of each view, before its effect has run. stage is
\* the component's life cycle, mounted the flag of its effect's closure, req
\* the state of its request. The last four fields are history: whether the
\* view was unmounted while the request was pending, whether the effect was
\* still mounted when the request settled, and what it settled with.
DefaultStats == [students |-> 0, todays |-> 0]
NoError == [message |-> "", response |-> NoResponse]
LogsInit ==
    [stage |-> "init", mounted |-> FALSE, req |-> "none",
     logs |-> JsArray(<< >>), loading |-> TRUE, err |-> ErrNull,
     early |-> FALSE, settledMounted |-> FALSE, r |-> NoResponse, e |-> NoError]
StudentsInit ==
    [stage |-> "init", mounted |-> FALSE, req |-> "none",
     list |-> JsArray(<< >>), loading |-> TRUE, err |-> ErrNull,
     early |-> FALSE, settledMounted |-> FALSE, r |-> NoResponse, e |-> NoError]
DashboardInit ==
    [stage |-> "init", mounted |-> FALSE, req |-> "none",
     stats |-> DefaultStats, loading |-> TRUE, err |-> ErrNull, warned |-> {},
     early |-> FALSE, settledMounted |-> FALSE, r |-> NoResponse, e |-> NoError]
InitView(v) ==
    CASE v = "Logs" -> LogsInit
      [] v = "Students" -> StudentsInit
      [] OTHER -> DashboardInit

\* ---- Logs: the callbacks of axios.get(..).then(..).catch(..).finally(..)
LogsThen(s, r) ==
    IF s.mounted
    THEN [s EXCEPT !.logs = IF IsArray(r.data) THEN r.data ELSE JsArray(<< >>)]
    ELSE s

LogsCatch_MessageOnly(s, e) ==
    IF s.mounted
    THEN [s EXCEPT !.err = ErrObject(e.message, "undefined", JsUndefined)]
    ELSE s

LogsCatch(s, e) ==
    IF s.mounted
    THEN LET resp == e.response
         IN  [s EXCEPT !.err = ErrObject(e.message, resp.status, resp.data)]
    ELSE s

LogsFinally(s) == IF s.mounted THEN [s EXCEPT !.loading = FALSE] ELSE s

\* ---- Students
StudentsThen(s, r) ==
    IF s.mounted
    THEN [s EXCEPT !.list = IF JsTruthy(r.data) THEN r.data ELSE JsArray(<< >>)]
    ELSE s

StudentsCatch(s, e) ==
    IF s.mounted
    THEN LET resp == e.response
         IN  [s EXCEPT !.err = ErrObject(e.message, resp.status, resp.data)]
    ELSE s

StudentsFinally_Unguarded(s) == [s EXCEPT !.loading = FALSE]
StudentsFinally(s) == IF s.mounted THEN [s EXCEPT !.loading = FALSE] ELSE s

\* ---- Dashboard
DashboardThen(s, r) ==
    IF s.mounted /\ r.present /\ JsTruthy(r.data)
    THEN [s EXCEPT !.stats = ObjectAssign(DefaultStats, r.data)]
    ELSE s

\* console.warn(.., e.message || e), then if(mounted) setErr(e.message ||
\* "Not available").
DashboardCatch_LogOnly(s, e) ==
    [s EXCEPT !.warned = @ \cup
        {<<"Dashboard summary not available:",
           IF e.message # "" THEN e.message ELSE "[object Error]">>}]

DashboardCatch(s, e) ==
    LET shown  == IF e.message # "" THEN e.message ELSE "Not available"
        logged == IF e.message # "" THEN e.message ELSE "[object Error]"
        s1     == [s EXCEPT !.warned = @ \cup
                       {<<"Dashboard summary not available:", logged>>}]
    IN  IF s.mounted THEN [s1 EXCEPT !.err = ErrString(shown)] ELSE s1

DashboardFinally(s) == IF s.mounted THEN [s EXCEPT !.loading = FALSE] ELSE s

Then(v, s, r) ==
    CASE v = "Logs" -> LogsThen(s, r)
      [] v = "Students" -> StudentsThen(s, r)
      [] OTHER -> DashboardThen(s, r)
Catch(v, s, e) ==
    CASE v = "Logs" -> LogsCatch(s, e)
      [] v = "Students" -> StudentsCatch(s, e)
      [] OTHER -> DashboardCatch(s, e)
Finally(v, s) ==
    CASE v = "Logs" -> LogsFinally(s)
      [] v = "Students" -> StudentsFinally(s)
      [] OTHER -> DashboardFinally(s)

\* ---- what each view shows for its state
\* The list views: the loading line, the error block (message, HTTP status
\* or "n/a", the JSON of the body), the rows, the empty-list placeholder.
ListRender(rows, loading, err) ==
    [loading     |-> loading,
     error       |-> ErrTruthy(err),
     message     |-> IF ErrTruthy(err) THEN err.message ELSE "",
     http        |-> IF ~ErrTruthy(err) THEN ""
                     ELSE IF err.status \notin {"undefined", "0"}
                     THEN err.status ELSE "n/a",
     body        |-> IF ErrTruthy(err) THEN err.data ELSE JsUndefined,
     rows        |-> rows.items,
     placeholder |-> Len(rows.items) = 0 /\ ~loading /\ ~ErrTruthy(err)]
LogsRender(s) == ListRender(s.logs, s.loading, s.err)
StudentsRender(s) == ListRender(s.list, s.loading, s.err)

\* The summary view shows exactly one of: the loading card, the error card,
\* the two counters.
DashboardRender(s) ==
    IF s.loading
    THEN [card |-> "loading", text |-> "", stats |-> EmptyObj]
    ELSE IF ErrTruthy(s.err)
    THEN [card |-> "error", text |-> s.err.message, stats |-> EmptyObj]
    ELSE [card |-> "stats", text |-> "", stats |-> s.stats]

\* ---- life cycle of a view and settlement of its request
hookVars == <<phase, wsRef, runs, socks, calls, console, tick, uncaught, props>>

\* First render and commit: the effect sets mounted and issues the GET.
ViewMount(v) ==
    /\ views[v].stage = "init"
    /\ views' = [views EXCEPT ![v].stage = "mounted",
                              ![v].mounted = TRUE,
                              ![v].req = "pending"]
    /\ UNCHANGED hookVars

\* The view unmounts: the effect's cleanup clears mounted.
ViewUnmount(v) ==
    /\ views[v].stage = "mounted"
    /\ views' = [views EXCEPT ![v].stage = "unmounted",
                              ![v].mounted = FALSE,
                              ![v].early = (views[v].req = "pending")]
    /\ UNCHANGED hookVars

\* The GET is answered with a 2xx response r: then, finally. The callbacks
\* of the chain run as consecutive microtasks; no render, unmount or other
\* task comes between them.
Fulfil(v, r) ==
    /\ views[v].req = "pending"
    /\ views' = [views EXCEPT ![v] =
                    [Finally(v, Then(v, @, r)) EXCEPT
                        !.req = "fulfilled", !.r = r,
                        !.settledMounted = views[v].mounted]]
    /\ UNCHANGED hookVars

\* The GET fails with the error e: catch, finally.
Reject(v, e) ==
    /\ views[v].req = "pending"
    /\ views' = [views EXCEPT ![v] =
                    [Finally(v, Catch(v, @, e)) EXCEPT
                        !.req = "rejected", !.e = e,
                        !.settledMounted = views[v].mounted]]
    /\ UNCHANGED hookVars

\* ------------------------------------------------------------ specification
Init ==
    /\ phase = "init"
    /\ wsRef = 0
    /\ runs = << >>
    /\ socks = << >>
    /\ calls = << >>
    /\ console = {}
    /\ tick = 0
    /\ uncaught = FALSE
    /\ props = << >>
    /\ views = [v \in ViewNames |-> InitView(v)]

Next ==
    \/ \E p \in Props : Mount(p[1], p[2])
    \/ \E p \in Props : Rerender(p[1], p[2])
    \/ Unmount
    \/ \E s \in DOMAIN socks : TransportOpen(s)
    \/ \E s \in DOMAIN socks, t \in FrameTexts : TransportMessage(s, t)
    \/ \E s \in DOMAIN socks : TransportError(s)
    \/ \E s \in DOMAIN socks : TransportClose(s)

Spec == Init /\ [][Next]_vars

\* The binding with a holder that may call a cleanup function again.
NextReclose ==
    \/ \E p \in Props : Mount(p[1], p[2])
    \/ \E p \in Props : Rerender(p[1], p[2])
    \/ Unmount
    \/ \E i \in DOMAIN runs : Reclose(i)
    \/ \E s \in DOMAIN socks : TransportOpen(s)
    \/ \E s \in DOMAIN socks, t \in FrameTexts : TransportMessage(s, t)
    \/ \E s \in DOMAIN socks : TransportError(s)
    \/ \E s \in DOMAIN socks : TransportClose(s)

SpecReclose == Init /\ [][NextReclose]_vars

\* The three REST views, each through its mount, its request and its unmount.
NextViews ==
    \/ \E v \in ViewNames : ViewMount(v)
    \/ \E v \in ViewNames : ViewUnmount(v)
    \/ \E v \in ViewNames : \E r \in Responses(v) : Fulfil(v, r)
    \/ \E v \in ViewNames : \E e \in Errors : Reject(v, e)

SpecViews == Init /\ [][NextViews]_vars

\* ------------------------------------------------------------- observation
\* The onMsg invocations made for run i, in the order they were made.
CallsOf(i) == SelectSeq(calls, LAMBDA c : c.run = i)

\* The frames of a sequence that JSON.parse accepts, in order.
WellFormed(fs) == SelectSeq(fs, LAMBDA t : JSONparse(t).ok)

\* The number of frames that had arrived on the connection of run i when its
\* close() ran; every frame that has arrived when close() has not run.
LiveFrames(i) ==
    IF runs[i].cleanups > 0 THEN runs[i].framesAtClose
    ELSE Len(socks[runs[i].ws].frames)

\* The runs that opened a connection.
Connected == {i \in DOMAIN runs : runs[i].ws # 0}

\* The state of the Handle of run i in the terms of the state machine
\* UNOPENED -> OPENING -> OPEN -> CLOSED: a run without a connection is CLOSED
\* at once; a run with one is CLOSED when its close() ran or its connection
\* is closing or closed, and otherwise as its connection is.
HandleState(i) ==
    IF runs[i].ws = 0 THEN "CLOSED"
    ELSE IF ~runs[i].alive
            \/ socks[runs[i].ws].readyState \in {"CLOSING", "CLOSED"}
         THEN "CLOSED"
    ELSE IF socks[runs[i].ws].readyState = "CONNECTING" THEN "OPENING"
    ELSE "OPEN"

\* ------------------------------------------------------------------ claims
\* C1. No dispatch after close: when the cleanup of an effect run ran before
\* the k-th frame of its connection was delivered, onMsg was invoked for no
\* frame k or later of that connection, hence at most k-1 times, also when
\* the transport still delivers frames after close() was requested.
C1_NoDispatchAfterClose ==
    \A i \in Connected :
        runs[i].cleanups > 0 =>
            /\ \A n \in DOMAIN calls :
                   calls[n].run = i => calls[n].k <= runs[i].framesAtClose
            /\ Len(CallsOf(i)) <= runs[i].framesAtClose

\* A run dispatched its first frame, was closed, and a well-formed second
\* frame arrived afterwards on the same connection.
C1_Witness ==
    \E i \in Connected :
        /\ runs[i].cleanups > 0
        /\ runs[i].framesAtClose = 1
        /\ Len(CallsOf(i)) = 1
        /\ Len(socks[runs[i].ws].frames) = 2
        /\ JSONparse(socks[runs[i].ws].frames[2]).ok

\* C2. Decode isolation: on a run that was never closed, a malformed frame
\* neither closes the connection nor changes the run, and onMsg has been
\* invoked exactly as many times as well-formed frames were delivered.
C2_DecodeIsolation ==
    \A i \in Connected :
        runs[i].cleanups = 0 =>
            /\ runs[i].alive
            /\ socks[runs[i].ws].closeCalls = 0
            /\ Truthy(runs[i].onMsg) =>
                   Len(CallsOf(i)) = Len(WellFormed(socks[runs[i].ws].frames))

\* A never-closed run received a malformed frame and then a well-formed one,
\* and dispatched once.
C2_Witness ==
    \E i \in Connected :
        /\ runs[i].cleanups = 0
        /\ Truthy(runs[i].onMsg)
        /\ Len(socks[runs[i].ws].frames) = 2
        /\ ~JSONparse(socks[runs[i].ws].frames[1]).ok
        /\ JSONparse(socks[runs[i].ws].frames[2]).ok
        /\ Len(CallsOf(i)) = 1

\* C3. Ordering: the events passed to onMsg for a run are the decoded
\* well-formed frames that arrived on its connection while it was not closed,
\* each once, in arrival order.
C3_Ordering ==
    \A i \in Connected :
        Truthy(runs[i].onMsg) =>
            LET wf == WellFormed(SubSeq(socks[runs[i].ws].frames, 1, LiveFrames(i)))
                cs == CallsOf(i)
            IN  /\ Len(cs) = Len(wf)
                /\ \A n \in DOMAIN cs : cs[n].ev = JSONparse(wf[n]).val
                /\ \A m, n \in DOMAIN cs : m < n => cs[m].k < cs[n].k

\* Two well-formed frames arrived on a live run and were dispatched.
C3_Witness ==
    \E i \in Connected :
        /\ Len(CallsOf(i)) = 2
        /\ CallsOf(i)[1].k = 1
        /\ CallsOf(i)[2].k = 2

\* C4. Endpoint-change re-subscription: when a run for endpoint U1 is
\* followed by a run for a different endpoint U2 (both accepted by the
\* transport), close() has been issued exactly once on the U1 connection,
\* exactly one connection has been opened for the U2 run, to U2, after that
\* close(), and no frame that arrived on the U1 connection after the close
\* reached onMsg.
C4_EndpointChange ==
    \A i \in DOMAIN runs :
        (/\ i + 1 \in DOMAIN runs
         /\ WebSocketAccepts(runs[i].url)
         /\ WebSocketAccepts(runs[i + 1].url)
         /\ runs[i].url # runs[i + 1].url) =>
            LET a == runs[i].ws
                b == runs[i + 1].ws
            IN  /\ a # 0 /\ b # 0 /\ a # b
                /\ socks[a].url = runs[i].url
                /\ socks[a].closeCalls = 1
                /\ {s \in DOMAIN socks : socks[s].run = i + 1} = {b}
                /\ socks[b].url = runs[i + 1].url
                /\ socks[a].closeAt > 0
                /\ socks[a].closeAt < socks[b].openedAt
                /\ \A n \in DOMAIN calls :
                       calls[n].run = i => calls[n].k <= runs[i].framesAtClose

\* The endpoint changed from U1 to U2 and a well-formed frame arrived on the
\* U1 connection afterwards.
C4_Witness ==
    \E i \in DOMAIN runs :
        /\ i + 1 \in DOMAIN runs
        /\ WebSocketAccepts(runs[i].url)
        /\ WebSocketAccepts(runs[i + 1].url)
        /\ runs[i].url # runs[i + 1].url
        /\ Truthy(runs[i].onMsg)
        /\ Len(socks[runs[i].ws].frames) > runs[i].framesAtClose
        /\ JSONparse(socks[runs[i].ws].frames[runs[i].framesAtClose + 1]).ok

\* C5. One active Handle, exclusive connections: while the binding is mounted
\* exactly one effect run is not torn down (none before the mount or after the
\* unmount), at most one of the connections the binding opened has not been
\* asked to close, and every connection belongs to exactly one run.
C5_OneHandleOneConnection ==
    /\ {i \in DOMAIN runs : ~runs[i].torn} =
           IF phase = "mounted" THEN {Len(runs)} ELSE {}
    /\ Cardinality({s \in DOMAIN socks : socks[s].closeCalls = 0}) <= 1
    /\ \A s \in DOMAIN socks :
           /\ {i \in DOMAIN runs : runs[i].ws = s} = {socks[s].run}
           /\ socks[s].closeCalls = 0 => ~runs[socks[s].run].torn

\* Two connections were opened by the binding; the first was asked to close,
\* the second was not.
C5_Witness ==
    /\ Len(socks) = 2
    /\ socks[1].closeCalls = 1
    /\ socks[2].closeCalls = 0
    /\ phase = "mounted"

\* C6. A transport error on an OPEN Handle leaves it CLOSED, and CLOSED is
\* terminal: a Handle that is CLOSED stays CLOSED in every later step and no
\* further onMsg invocation is made for it.
C6_ClosedTerminal ==
    [][/\ \A s \in DOMAIN socks :
              (HandleState(socks[s].run) = "OPEN" /\ TransportError(s))
                  => HandleState(socks[s].run)' = "CLOSED"
       /\ \A i \in DOMAIN runs :
              HandleState(i) = "CLOSED"
                  => /\ HandleState(i)' = "CLOSED"
                     /\ CallsOf(i)' = CallsOf(i)]_vars

\* A transport error hit the only connection while its Handle was OPEN and
\* had not been closed by the binding.
C6_Witness ==
    /\ Len(socks) = 1
    /\ socks[1].readyState = "CLOSED"
    /\ socks[1].closeCalls = 0
    /\ {"ws open", "ws error"} \subseteq console

\* C7. No automatic reconnection: the connections ever opened are exactly one
\* per effect run whose endpoint is non-empty and accepted by the transport,
\* whatever errors and closes the transport reported; the transport is
\* constructed once per run with a non-empty endpoint.
C7_NoReconnect ==
    /\ Len(socks) = Cardinality({i \in DOMAIN runs :
                         Truthy(runs[i].url) /\ WebSocketAccepts(runs[i].url)})
    /\ \A s, t \in DOMAIN socks : socks[s].run = socks[t].run => s = t
    /\ {i \in DOMAIN runs : runs[i].attempted} =
           {i \in DOMAIN runs : Truthy(runs[i].url)}

\* The transport closed the only connection by itself while the binding is
\* still mounted on it.
C7_Witness ==
    /\ phase = "mounted"
    /\ Len(runs) = 1
    /\ Len(socks) = 1
    /\ socks[1].readyState = "CLOSED"
    /\ socks[1].closeCalls = 0
    /\ "ws closed" \in console

\* C8. Fail-soft construction: for a run whose non-empty endpoint the
\* WebSocket constructor rejects, no exception leaves the hook, the failure is
\* logged, the run has no connection and no cleanup function, onMsg is never
\* invoked for it, and its teardown issues no close(): the connections of the
\* earlier runs keep the single close() their own run issued.
C8_FailSoft ==
    \A i \in DOMAIN runs :
        (Truthy(runs[i].url) /\ ~WebSocketAccepts(runs[i].url)) =>
            /\ ~uncaught
            /\ "ws err" \in console
            /\ runs[i].ws = 0
            /\ {s \in DOMAIN socks : socks[s].run = i} = {}
            /\ CallsOf(i) = << >>
            /\ runs[i].cleanups = 0
            /\ runs[i].closed = {}
            /\ \A s \in DOMAIN socks :
                   socks[s].run < i => socks[s].closeCalls = 1

\* A run with a rejected endpoint followed a connected run and has been torn
\* down by the unmount.
C8_Witness ==
    /\ phase = "unmounted"
    /\ Len(runs) = 2
    /\ runs[1].ws # 0
    /\ Truthy(runs[2].url) /\ ~WebSocketAccepts(runs[2].url)
    /\ runs[2].torn

\* C9. Empty endpoint is inert: for a run whose endpoint is empty or absent
\* the transport is never constructed, the run has no connection and no
\* cleanup function, onMsg is never invoked for it and its teardown issues no
\* close(); when the previous run had a connection, that connection has been
\* asked to close exactly once and no connection was opened in its place.
C9_EmptyEndpointInert ==
    \A i \in DOMAIN runs :
        ~Truthy(runs[i].url) =>
            /\ ~runs[i].attempted
            /\ runs[i].ws = 0
            /\ {s \in DOMAIN socks : socks[s].run = i} = {}
            /\ CallsOf(i) = << >>
            /\ runs[i].cleanups = 0
            /\ runs[i].closed = {}
            /\ (i > 1 /\ runs[i - 1].ws # 0) =>
                   /\ socks[runs[i - 1].ws].closeCalls = 1
                   /\ runs[i - 1].closed = {runs[i - 1].ws}
                   /\ i = Len(runs) => wsRef = runs[i - 1].ws

\* The endpoint of a connected binding became empty, and the binding was then
\* unmounted.
C9_Witness ==
    /\ phase = "unmounted"
    /\ Len(runs) = 2
    /\ runs[1].ws # 0
    /\ ~Truthy(runs[2].url)
    /\ runs[2].torn

\* C10. Idempotent close: a call of a run's cleanup function after its first
\* call, a call after the transport terminated the run's connection by
\* itself, and the teardown of a run without a connection raise nothing and
\* change no connection's readyState, start no teardown on any connection
\* and change no other run.
C10_IdempotentClose ==
    [][\A i \in DOMAIN runs :
          (\/ runs[i].cleanups >= 1 /\ runs'[i].cleanups > runs[i].cleanups
           \/ /\ runs[i].cleanups = 0 /\ runs'[i].cleanups = 1
              /\ socks[runs[i].ws].readyState = "CLOSED"
           \/ runs[i].ws = 0 /\ ~runs[i].torn /\ runs'[i].torn)
              => /\ \A s \in DOMAIN socks :
                        /\ socks'[s].readyState = socks[s].readyState
                        /\ socks'[s].teardowns = socks[s].teardowns
                 /\ \A j \in DOMAIN runs \ {i} : runs'[j] = runs[j]
                 /\ uncaught' = uncaught]_vars

\* C11. Re-subscription on identity change: while the binding is mounted the
\* live run is the one of the latest rendered (url, onMsg) pair, so a render
\* with a changed pair - also one that changes only onMsg - ran the effect
\* again; the run before a later run was torn down with exactly one close()
\* on its connection, and the later run attempted a connection iff its url is
\* non-empty, on a new socket. Consecutive runs never have the same pair, and
\* the live run has had no close: a render with an unchanged pair closes and
\* opens nothing.
C11_Resubscribe ==
    /\ phase = "mounted" =>
          /\ props = <<runs[Len(runs)].url, runs[Len(runs)].onMsg>>
          /\ ~runs[Len(runs)].torn
          /\ runs[Len(runs)].cleanups = 0
          /\ runs[Len(runs)].ws # 0 =>
                /\ runs[Len(runs)].alive
                /\ socks[runs[Len(runs)].ws].closeCalls = 0
    /\ \A i \in DOMAIN runs : i + 1 \in DOMAIN runs =>
          LET a == runs[i]
              b == runs[i + 1]
          IN  /\ <<a.url, a.onMsg>> # <<b.url, b.onMsg>>
              /\ a.torn
              /\ a.ws # 0 =>
                    /\ ~a.alive
                    /\ socks[a.ws].closeCalls = 1
                    /\ socks[a.ws].readyState \in {"CLOSING", "CLOSED"}
              /\ b.attempted <=> Truthy(b.url)
              /\ WebSocketAccepts(b.url) =>
                    /\ b.ws # 0
                    /\ b.ws # a.ws
                    /\ socks[b.ws].url = b.url
                    /\ a.ws # 0 => socks[b.ws].openedAt > socks[a.ws].closeAt
    /\ Len(socks) = Cardinality({i \in DOMAIN runs : WebSocketAccepts(runs[i].url)})

\* The callback alone changed: the first connection is closed, a second one
\* to the same endpoint is open.
C11_Witness ==
    /\ phase = "mounted"
    /\ Len(runs) = 2
    /\ runs[1].url = runs[2].url
    /\ runs[1].onMsg # runs[2].onMsg
    /\ runs[1].ws = 1 /\ runs[2].ws = 2
    /\ socks[1].closeCalls = 1
    /\ socks[2].readyState = "OPEN"

\* C12, as stated. Summary fetch errors are only logged: after the GET of the
\* dashboard summary failed, a warning is on the console and the summary view
\* holds no error and does not show the error card.
C12_SummaryErrorOnlyLogged ==
    views["Dashboard"].req = "rejected" =>
        /\ views["Dashboard"].warned # {}
        /\ views["Dashboard"].err = ErrNull
        /\ DashboardRender(views["Dashboard"]).card # "error"

\* C12, amended. After the GET of the dashboard summary failed, the failure
\* is on the console as a warning; if the view was still mounted it has
\* loading = false and err = the error's message ("Not available" for an
\* empty message), it shows the error card with that text in place of the
\* counters, and the error state carries no HTTP status and no body; if the
\* view was unmounted it holds no error.
C12_SummaryErrorSurfaced ==
    LET s == views["Dashboard"]
        m == IF s.e.message # "" THEN s.e.message ELSE "Not available"
    IN  s.req = "rejected" =>
           /\ Cardinality(s.warned) = 1
           /\ \A w \in s.warned : w[1] = "Dashboard summary not available:"
           /\ s.stats = DefaultStats
           /\ s.settledMounted =>
                 /\ ~s.loading
                 /\ s.err = [kind |-> "string", message |-> m,
                             status |-> "undefined", data |-> JsUndefined]
                 /\ DashboardRender(s) =
                        [card |-> "error", text |-> m, stats |-> EmptyObj]
           /\ ~s.settledMounted =>
                 /\ s.loading
                 /\ s.err = ErrNull

\* The summary GET was answered with an HTTP error while the view was mounted.
C12_Witness ==
    /\ views["Dashboard"].req = "rejected"
    /\ views["Dashboard"].settledMounted
    /\ views["Dashboard"].e.response.present
    /\ views["Dashboard"].stage = "mounted"

\* C13. Roster and logs fetch errors are surfaced: once the GET of the Logs or
\* the Students view has failed while the view was mounted, the view has
\* loading = false and an error object holding the error's message and, when
\* the error has a response, its HTTP status and body (otherwise neither);
\* the list is still empty; the view shows the error block with the message,
\* the status (or "n/a") and the body, and shows neither the loading line nor
\* the empty-list placeholder.
C13_ListErrorsSurfaced ==
    LET Surfaced(s, rows, rd) ==
            (s.req = "rejected" /\ s.settledMounted) =>
                /\ ~s.loading
                /\ s.err.kind = "object"
                /\ s.err.message = s.e.message
                /\ s.err.status = s.e.response.status
                /\ s.err.data = s.e.response.data
                /\ ~s.e.response.present =>
                      s.err.status = "undefined" /\ s.err.data = JsUndefined
                /\ rows = JsArray(<< >>)
                /\ rd.error /\ ~rd.loading /\ ~rd.placeholder
                /\ rd.message = s.e.message
                /\ rd.http = IF s.e.response.present
                             THEN s.e.response.status ELSE "n/a"
                /\ rd.body = s.e.response.data
                /\ rd.rows = << >>
    IN  /\ Surfaced(views["Logs"], views["Logs"].logs,
                    LogsRender(views["Logs"]))
        /\ Surfaced(views["Students"], views["Students"].list,
                    StudentsRender(views["Students"]))

\* The logs GET failed with an HTTP error and the roster GET without any
\* answer, both while their views were mounted.
C13_Witness ==
    /\ views["Logs"].req = "rejected"
    /\ views["Logs"].settledMounted
    /\ views["Logs"].e.response.present
    /\ views["Students"].req = "rejected"
    /\ views["Students"].settledMounted
    /\ ~views["Students"].e.response.present

\* C14. Summary defaults: until the summary GET is answered the stats are
\* students = 0 and todays = 0; once it has been answered with a 2xx response
\* while the view was mounted, each of the two counters has the value the
\* response body gives it, and 0 when the body does not have it, and these
\* are the numbers the view shows.
C14_SummaryDefaults ==
    LET s == views["Dashboard"]
        Given(f) == s.r.data.t = "object" /\ f \in DOMAIN s.r.data.obj
    IN  /\ s.req \in {"none", "pending"} =>
              s.stats = [students |-> 0, todays |-> 0]
        /\ (s.req = "fulfilled" /\ s.settledMounted) =>
              /\ \A f \in {"students", "todays"} :
                    /\ f \in DOMAIN s.stats
                    /\ s.stats[f] = IF Given(f) THEN s.r.data.obj[f] ELSE 0
              /\ s.err = ErrNull
              /\ DashboardRender(s) =
                    [card |-> "stats", text |-> "", stats |-> s.stats]

\* The summary was answered, while mounted, with a body that has students
\* but not todays.
C14_Witness ==
    /\ views["Dashboard"].req = "fulfilled"
    /\ views["Dashboard"].settledMounted
    /\ views["Dashboard"].r.data.t = "object"
    /\ DOMAIN views["Dashboard"].r.data.obj = {"students"}
    /\ views["Dashboard"].stats = [students |-> 7, todays |-> 0]

\* C17. Unmount guards the view state: a view that was unmounted while its
\* GET was pending keeps, whatever the request later settles with, the
\* data, the error and the loading flag it was created with; a view that was
\* mounted when its GET settled has loading = false from then on.
C17_UnmountGuard ==
    /\ \A v \in ViewNames :
          /\ views[v].early =>
                /\ views[v].loading
                /\ views[v].err = ErrNull
          /\ (views[v].req \in {"fulfilled", "rejected"}
                /\ views[v].settledMounted) => ~views[v].loading
    /\ views["Logs"].early => views["Logs"].logs = JsArray(<< >>)
    /\ views["Students"].early => views["Students"].list = JsArray(<< >>)
    /\ views["Dashboard"].early =>
          views["Dashboard"].stats = [students |-> 0, todays |-> 0]

\* The logs view was unmounted before a non-empty answer arrived, the roster
\* view before its request failed, and the summary view was later unmounted
\* after its answer had arrived.
C17_Witness ==
    /\ views["Logs"].early
    /\ views["Logs"].req = "fulfilled"
    /\ views["Logs"].r.data = JsArray(<<"log1">>)
    /\ views["Students"].early
    /\ views["Students"].req = "rejected"
    /\ views["Dashboard"].req = "fulfilled"
    /\ views["Dashboard"].settledMounted
    /\ views["Dashboard"].stage = "unmounted"

\* C15. No connection leak: every connection the hook constructed belongs to
\* one run; once that run is torn down close() has been called on the
\* connection exactly once, by that run's cleanup and by no other run's, and
\* before the next connection was constructed; a connection whose run is not
\* torn down has had no close() and belongs to the live run of a mounted
\* binding; after the unmount every connection has had its one close().
C15_NoLeak ==
    \A s \in DOMAIN socks :
        LET i == socks[s].run
        IN  /\ runs[i].ws = s
            /\ runs[i].torn =>
                  /\ socks[s].closeCalls = 1
                  /\ runs[i].cleanups = 1
                  /\ runs[i].closed = {s}
                  /\ socks[s].closeAt > socks[s].openedAt
            /\ ~runs[i].torn =>
                  /\ socks[s].closeCalls = 0
                  /\ runs[i].cleanups = 0
                  /\ phase = "mounted"
                  /\ i = Len(runs)
            /\ \A j \in DOMAIN runs \ {i} : s \notin runs[j].closed
            /\ s + 1 \in DOMAIN socks =>
                  /\ socks[s].closeCalls = 1
                  /\ socks[s].closeAt < socks[s + 1].openedAt
            /\ phase = "unmounted" => socks[s].closeCalls = 1

\* Two connections were opened, one after the other, and the binding is
\* unmounted: each was closed once, by its own run.
C15_Witness ==
    /\ phase = "unmounted"
    /\ Len(socks) = 2
    /\ socks[1].closeCalls = 1 /\ socks[2].closeCalls = 1
    /\ runs[1].closed = {1} /\ runs[2].closed = {2}

\* C16. Consumer exceptions are contained: no exception escapes a handler;
\* every onMsg call that threw left the line "ws parse" on the console; and a
\* run whose onMsg has thrown, as long as its cleanup has not run, is still
\* alive with no close() and no teardown on its connection, and has had
\* onMsg called for every well-formed frame that arrived, the ones after the
\* throw included.
C16_ConsumerExceptionsContained ==
    /\ ~uncaught
    /\ \A n \in DOMAIN calls : calls[n].threw => "ws parse" \in console
    /\ \A i \in Connected :
          (\E n \in DOMAIN calls : calls[n].run = i /\ calls[n].threw) =>
              /\ runs[i].cleanups = 0 =>
                    /\ runs[i].alive
                    /\ socks[runs[i].ws].closeCalls = 0
                    /\ socks[runs[i].ws].teardowns = 0
              /\ Len(CallsOf(i)) =
                    Len(WellFormed(SubSeq(socks[runs[i].ws].frames,
                                          1, LiveFrames(i))))

\* onMsg threw for a frame, and was called again for the next frame on the
\* same, still open connection.
C16_Witness ==
    \E i \in Connected :
        /\ Len(CallsOf(i)) = 2
        /\ CallsOf(i)[1].threw
        /\ CallsOf(i)[1].k = 1 /\ CallsOf(i)[2].k = 2
        /\ runs[i].alive
        /\ socks[runs[i].ws].readyState = "OPEN"
        /\ socks[runs[i].ws].closeCalls = 0

TypeOK ==
    /\ phase \in {"init", "mounted", "unmounted"}
    /\ wsRef \in 0..Len(socks)
    /\ uncaught \in BOOLEAN
    /\ props \in Props \cup {<< >>}
    /\ DOMAIN views = ViewNames
    /\ \A v \in ViewNames :
          /\ views[v].stage \in {"init", "mounted", "unmounted"}
          /\ views[v].mounted = (views[v].stage = "mounted")
          /\ views[v].req \in {"none", "pending", "fulfilled", "rejected"}
          /\ views[v].loading \in BOOLEAN
====
